---- MODULE Spec2Model ----
(***************************************************************************)
(* Model of the floating-point core of proto-sim-portfolio:                *)
(*   src/src/bisection.rs  Bisection::bisection                            *)
(*   src/src/math.rs       NormalCurve (trading function, trade approx.)   *)
(*                                                                         *)
(* Numbers.  A finite f64 is a fixed-point integer n standing for          *)
(* n / Scale, Scale = 2^14: 2^-14 is the width at which the bisection of   *)
(* approximate_other_reserve stops (epsilon 0.0001 on [0, 1]), so every    *)
(* midpoint that search computes is represented exactly.  A value that can *)
(* be non-finite is a record [k, v, e]: k is "fin", "pinf", "ninf" or      *)
(* "nan", v the fixed-point value, e the multiple of 1e-18 added to it     *)
(* (1e-18 is far below 2^-14 and only ever decides a sign).  k = "panic"   *)
(* stands for an evaluation that panicked instead of returning; it absorbs *)
(* every operation applied to it.  Rounding of f64 products and sums       *)
(* inside one resolution step is not modelled.                             *)
(***************************************************************************)
EXTENDS Integers, Sequences, FiniteSets, TLC

Scale == 2^14

Abs(n) == IF n < 0 THEN -n ELSE n

Sgn(n) == IF n > 0 THEN 1 ELSE IF n < 0 THEN -1 ELSE 0

(* ---------------- extended reals (f64 values) ---------------- *)

Fin(n) == [k |-> "fin", v |-> n, e |-> 0]
PosInf == [k |-> "pinf", v |-> 0, e |-> 0]
NegInf == [k |-> "ninf", v |-> 0, e |-> 0]
NaN == [k |-> "nan", v |-> 0, e |-> 0]
Panic == [k |-> "panic", v |-> 0, e |-> 0]

IsFin(a) == a.k = "fin"

\* sign of an f64 value: -1, 0, 1 (NaN has none; callers test for it first)
SignOf(a) ==
  CASE a.k = "pinf" -> 1
    [] a.k = "ninf" -> -1
    [] a.k = "fin" -> (IF a.v # 0 THEN Sgn(a.v) ELSE Sgn(a.e))
    [] OTHER -> 0

Neg(a) ==
  CASE a.k = "pinf" -> NegInf
    [] a.k = "ninf" -> PosInf
    [] a.k = "fin" -> [k |-> "fin", v |-> -a.v, e |-> -a.e]
    [] OTHER -> a

\* IEEE-754 addition: inf + (-inf) and anything with NaN is NaN
AddF(a, b) ==
  CASE a.k = "panic" \/ b.k = "panic" -> Panic
    [] a.k = "nan" \/ b.k = "nan" -> NaN
    [] a.k = "pinf" -> (IF b.k = "ninf" THEN NaN ELSE PosInf)
    [] a.k = "ninf" -> (IF b.k = "pinf" THEN NaN ELSE NegInf)
    [] b.k = "pinf" -> PosInf
    [] b.k = "ninf" -> NegInf
    [] OTHER -> [k |-> "fin", v |-> a.v + b.v, e |-> a.e + b.e]

SubF(a, b) == AddF(a, Neg(b))

\* IEEE-754 `a * b <= 0.0`: false when the product is NaN (a NaN factor, or
\* 0 * inf), otherwise decided by the signs of the factors
ProductLeqZero(a, b) ==
  /\ a.k \notin {"nan", "panic"}
  /\ b.k \notin {"nan", "panic"}
  /\ ~(SignOf(a) = 0 /\ b.k \in {"pinf", "ninf"})
  /\ ~(SignOf(b) = 0 /\ a.k \in {"pinf", "ninf"})
  /\ SignOf(a) * SignOf(b) <= 0

\* fixed-point quotient a / b of two fixed-point numbers, b > 0, rounded to
\* nearest (ties away from zero), as an f64 division rounds
DivFix(a, b) == Sgn(a) * ((2 * Abs(a) * Scale + b) \div (2 * b))

\* fixed-point product, truncated toward minus infinity
MulFix(a, b) == (a * b) \div Scale

RECURSIVE DivBits(_, _, _)
\* the first n binary digits of r / d, for 0 <= r < d
DivBits(r, d, n) ==
  IF n = 0 THEN 0
  ELSE LET b == IF 2 * r >= d THEN 1 ELSE 0
       IN b * 2^(n - 1) + DivBits(2 * r - b * d, d, n - 1)

RECURSIVE SqrtSearch(_, _, _)
\* the largest r in lo..hi with r * r <= n (lo * lo <= n)
SqrtSearch(n, lo, hi) ==
  IF lo >= hi THEN lo
  ELSE LET m == (lo + hi + 1) \div 2
       IN IF m * m <= n THEN SqrtSearch(n, m, hi) ELSE SqrtSearch(n, lo, m - 1)

\* f64::sqrt of a fixed-point number 0 <= a <= 4, truncated to the grid
SqrtFix(a) == SqrtSearch(a * Scale, 0, 2 * Scale)

(* ---------------- standard normal quantile (statrs) ---------------- *)

\* knots of the quantile function on (0, 1/2]: probabilities, and the
\* quantiles round(InvCDF(p) * Scale); the lower half is dyadic so that the
\* smallest probability of the grid has its own knot
KnotP == << 1, 2, 4, 8, 16, 32, 64, 128, 256, 512, 1024, 1536, 2048, 2560,
            3072, 3584, 4096, 4608, 5120, 5632, 6144, 6656, 7168, 7680, 8192 >>

KnotZ == << -62946, -60102, -57133, -54021, -50746, -47278, -43583, -39609,
            -35289, -30519, -25135, -21594, -18847, -16548, -14535, -12721,
            -11051, -9489, -8008, -6590, -5221, -3886, -2577, -1285, 0 >>

\* the quantile of p, 0 < p <= 1/2, interpolated linearly between knots
QuantileLow(p) ==
  LET i == CHOOSE j \in 1..(Len(KnotP) - 1) : KnotP[j] <= p /\ p <= KnotP[j + 1]
  IN KnotZ[i] + ((p - KnotP[i]) * (KnotZ[i + 1] - KnotZ[i])) \div (KnotP[i + 1] - KnotP[i])

\* Normal::new(0.0, 1.0).inverse_cdf(p): panics outside [0, 1], -inf at 0 and
\* +inf at 1, antisymmetric about 1/2
inverse_cdf(p) ==
  IF p < 0 \/ p > Scale THEN Panic
  ELSE IF p = 0 THEN NegInf
  ELSE IF p = Scale THEN PosInf
  ELSE IF p <= Scale \div 2 THEN Fin(QuantileLow(p))
  ELSE Fin(-QuantileLow(Scale - p))

(* ---------------- NormalCurve (src/src/math.rs) ---------------- *)

SECONDS_PER_YEAR == 31556953

\* the f64 quotient time_remaining_sec / SECONDS_PER_YEAR on the grid
YearFraction(t) ==
  (t \div SECONDS_PER_YEAR) * Scale
    + DivBits(t % SECONDS_PER_YEAR, SECONDS_PER_YEAR, 14)

\* std_dev_f * sqrt(time_remaining_sec / SECONDS_PER_YEAR)
std_dev_sqrt_tau(self) ==
  MulFix(self.std_dev_f, SqrtFix(YearFraction(self.time_remaining_sec)))

\* the invariant with the stored invariant field added in
trading_function_floating_Stored(self) ==
  LET invariant_term_x == inverse_cdf(Scale - self.reserve_x_per_wad)
      invariant_term_y == inverse_cdf(DivFix(self.reserve_y_per_wad, self.strike_price_f))
  IN AddF(AddF(SubF(invariant_term_y, invariant_term_x), Fin(std_dev_sqrt_tau(self))),
          Fin(self.invariant_f))

\* k = InvCDF(y / K) - InvCDF(1 - x) + sigma sqrt(tau)
trading_function_floating(self) ==
  LET invariant_term_x == inverse_cdf(Scale - self.reserve_x_per_wad)
      invariant_term_y == inverse_cdf(DivFix(self.reserve_y_per_wad, self.strike_price_f))
  IN AddF(SubF(invariant_term_y, invariant_term_x), Fin(std_dev_sqrt_tau(self)))

\* the f64 sum a + s * 1e-18 of a fixed-point number: 1e-18 is below half an
\* ulp of a once |a| >= 2^-6, and the sum is then a itself
AddTiny(a, s) ==
  IF Abs(a) >= Scale \div 64 THEN Fin(a) ELSE [k |-> "fin", v |-> a, e |-> s]

find_root_swapping_x(self, value) ==
  LET copy == [self EXCEPT !.reserve_y_per_wad = value]
  IN SubF(trading_function_floating(copy), AddTiny(self.invariant_f, 1))

find_root_swapping_y(self, value) ==
  LET copy == [self EXCEPT !.reserve_x_per_wad = value]
  IN SubF(trading_function_floating(copy), AddTiny(self.invariant_f, -1))

\* the probability of z <= 0 on the grid: the inverse of QuantileLow,
\* interpolated linearly between the same knots; below the first knot the
\* probability is under one step of the grid
CdfLow(z) ==
  IF z < KnotZ[1] THEN 0
  ELSE LET i == CHOOSE j \in 1..(Len(KnotZ) - 1) : KnotZ[j] <= z /\ z <= KnotZ[j + 1]
       IN KnotP[i] + ((z - KnotZ[i]) * (KnotP[i + 1] - KnotP[i])) \div (KnotZ[i + 1] - KnotZ[i])

\* Normal::new(0.0, 1.0).cdf(a): 0 at -inf, 1 at +inf, NaN at NaN
cdf(a) ==
  CASE a.k = "panic" -> Panic
    [] a.k = "nan" -> NaN
    [] a.k = "pinf" -> Fin(Scale)
    [] a.k = "ninf" -> Fin(0)
    [] OTHER -> IF a.v <= 0 THEN Fin(CdfLow(a.v)) ELSE Fin(Scale - CdfLow(-a.v))

\* the f64 product c * a of a finite c > 0 and a value a
TimesF(c, a) == IF IsFin(a) THEN Fin(MulFix(c, a.v)) ELSE a

\* the reserve y with k read from the stored invariant field
approximate_y_given_x_floating_StoredK(self) ==
  LET invariant_term_x == inverse_cdf(Scale - self.reserve_x_per_wad)
      k == Fin(self.invariant_f)
  IN TimesF(self.strike_price_f,
            cdf(AddF(SubF(invariant_term_x, Fin(std_dev_sqrt_tau(self))), k)))

\* y = K * CDF(InvCDF(1 - x) - sigma sqrt(tau) + k), k = 0.0
approximate_y_given_x_floating(self) ==
  LET invariant_term_x == inverse_cdf(Scale - self.reserve_x_per_wad)
      k == Fin(0)
  IN TimesF(self.strike_price_f,
            cdf(AddF(SubF(invariant_term_x, Fin(std_dev_sqrt_tau(self))), k)))

\* the reserve x with k read from the stored invariant field
approximate_x_given_y_floating_StoredK(self) ==
  LET invariant_term_y == inverse_cdf(DivFix(self.reserve_y_per_wad, self.strike_price_f))
      k == Fin(self.invariant_f)
  IN SubF(Fin(Scale), cdf(SubF(AddF(invariant_term_y, Fin(std_dev_sqrt_tau(self))), k)))

\* the solver with k = 0.0, as approximate_y_given_x_floating has it
approximate_x_given_y_floating_ZeroK(self) ==
  LET invariant_term_y == inverse_cdf(DivFix(self.reserve_y_per_wad, self.strike_price_f))
  IN SubF(Fin(Scale), cdf(AddF(invariant_term_y, Fin(std_dev_sqrt_tau(self)))))

\* x = 1 - CDF(InvCDF(y / K) + sigma sqrt(tau) - k), k = the invariant of self
approximate_x_given_y_floating(self) ==
  LET invariant_term_y == inverse_cdf(DivFix(self.reserve_y_per_wad, self.strike_price_f))
      k == trading_function_floating(self)
  IN SubF(Fin(Scale), cdf(SubF(AddF(invariant_term_y, Fin(std_dev_sqrt_tau(self))), k)))

\* Graphable::y_equals: the solver on a clone with reserve x overwritten
y_equals(self, x) ==
  LET copy == [self EXCEPT !.reserve_x_per_wad = x]
  IN approximate_y_given_x_floating(copy)

\* Graphable::x_equals: the solver on a clone with reserve y overwritten
x_equals(self, y) ==
  LET copy == [self EXCEPT !.reserve_y_per_wad = y]
  IN approximate_x_given_y_floating(copy)

\* the x of the i-th pair of get_trading_function_coordinates: 0.0 and then
\* += 0.01 while x < 1.0, which makes 100 pairs; the i-th is (i - 1) / 100
\* on the grid
CoordinateX(i) == ((i - 1) * Scale) \div 100

\* the Vec get_trading_function_coordinates returns: the loop writes x to
\* copy and evaluates self
get_trading_function_coordinates(self) ==
  [i \in 1..100 |-> << CoordinateX(i), approximate_y_given_x_floating(self) >>]

(* ---------------- Bisection (src/src/bisection.rs) ---------------- *)

\* epsilon is a rational num / den, so that 0.0001 is exact
Eps(num, den) == [num |-> num, den |-> den]

Bisection_new(lower, upper, epsilon, max_iter) ==
  [lower |-> lower, upper |-> upper, epsilon |-> epsilon, max_iter |-> max_iter]

\* distance > self.epsilon, distance a fixed-point number
ExceedsEpsilon(dist, epsilon) == dist * epsilon.den > epsilon.num * Scale

\* the while condition with the iteration budget forgotten
LoopGuard_NoBudget(b, dist, iters) == ExceedsEpsilon(dist, b.epsilon)

\* the while condition of Bisection::bisection
LoopGuard(b, dist, iters) ==
  ExceedsEpsilon(dist, b.epsilon) /\ iters < b.max_iter

\* a point a third of the way into the bracket instead of its midpoint
Midpoint_ThirdPoint(lo, hi) == (2 * lo + hi) \div 3

\* (lower_temp + upper_temp) / 2.0
Midpoint(lo, hi) == (lo + hi) \div 2

\* the branch condition with < for <=
MovesUpper_Strict(output, at_lower) ==
  ProductLeqZero(output, at_lower) /\ SignOf(output) * SignOf(at_lower) # 0

\* the branch condition with the branches exchanged
MovesUpper_Inverted(output, at_lower) == ~ProductLeqZero(output, at_lower)

\* the branch condition: output * fx(lower_temp) <= 0.0
MovesUpper(output, at_lower) == ProductLeqZero(output, at_lower)

(* ---------------- the functions handed to the bisection ---------------- *)

NoCurve ==
  [reserve_x_per_wad |-> 0, reserve_y_per_wad |-> 0, strike_price_f |-> Scale,
   std_dev_f |-> 0, time_remaining_sec |-> 0, invariant_f |-> 0]

\* a closure F: Fn(f64) -> f64.  "lin" is s * (x - a); "vee" is
\* s * (|x - a| - c); "swap_x" and "swap_y" are the closures built by
\* approximate_other_reserve over its clone `copy`
Closure(kind, s, a, c, copy) ==
  [kind |-> kind, s |-> s, a |-> a, c |-> c, copy |-> copy]

Apply(f, x) ==
  CASE f.kind = "lin" -> Fin(f.s * (x - f.a))
    [] f.kind = "vee" -> Fin(f.s * (Abs(x - f.a) - f.c))
    [] f.kind = "swap_x" -> find_root_swapping_x(f.copy, x)
    [] OTHER -> find_root_swapping_y(f.copy, x)

\* the real zeros of a "lin" or "vee" closure
Roots(f) ==
  IF f.kind = "lin" THEN {f.a}
  ELSE IF f.c < 0 THEN {}
  ELSE {f.a - f.c, f.a + f.c}

RECURSIVE BisectionLoop(_, _, _, _, _, _, _)
\* the while loop of Bisection::bisection run to its end from the given
\* values of its locals: the root it returns, or Panic when fx panics
BisectionLoop(b, f, lo, hi, rt, dist, iters) ==
  IF ~LoopGuard(b, dist, iters) THEN Fin(rt)
  ELSE LET mid == Midpoint(lo, hi)
           output == Apply(f, mid)
           at_lower == Apply(f, lo)
       IN IF output.k = "panic" \/ at_lower.k = "panic" THEN Panic
          ELSE IF MovesUpper(output, at_lower)
               THEN BisectionLoop(b, f, lo, mid, mid, mid - lo, iters + 1)
               ELSE BisectionLoop(b, f, mid, hi, mid, hi - mid, iters + 1)

\* Bisection::bisection as a function of its inputs
bisection(b, f) == BisectionLoop(b, f, b.lower, b.upper, 0, b.upper - b.lower, 0)

\* a bracket that reaches up to 2.0 instead of 1.0
OtherReserveData_Wide == Bisection_new(0, 2 * Scale, Eps(1, 10000), 1000)

\* the Bisection value built by approximate_other_reserve
OtherReserveData == Bisection_new(0, Scale, Eps(1, 10000), 1000)

\* the closure with the known reserve written to the other field of the clone
OtherReserveClosure_WrongField(self, sell, reserve_in) ==
  IF sell
  THEN Closure("swap_x", 1, 0, 0, [self EXCEPT !.reserve_y_per_wad = reserve_in])
  ELSE Closure("swap_y", 1, 0, 0, [self EXCEPT !.reserve_x_per_wad = reserve_in])

\* the closure approximate_other_reserve hands to the bisection
OtherReserveClosure(self, sell, reserve_in) ==
  IF sell
  THEN Closure("swap_x", 1, 0, 0, [self EXCEPT !.reserve_x_per_wad = reserve_in])
  ELSE Closure("swap_y", 1, 0, 0, [self EXCEPT !.reserve_y_per_wad = reserve_in])

\* reserve_in of approximate_amount_out
AmountOutReserveIn(self, sell, amt) ==
  IF sell THEN self.reserve_x_per_wad + amt ELSE self.reserve_y_per_wad + amt

\* the return value taken from the reserve that came in
AmountOutResult_InReserve(self, sell, reserve_out) ==
  IF sell THEN self.reserve_x_per_wad - reserve_out
  ELSE self.reserve_y_per_wad - reserve_out

\* the return value with the new reserve added instead of subtracted
AmountOutResult_Sum(self, sell, reserve_out) ==
  IF sell THEN self.reserve_y_per_wad + reserve_out
  ELSE self.reserve_x_per_wad + reserve_out

\* the value approximate_amount_out returns: current reserve - new reserve
AmountOutResult(self, sell, reserve_out) ==
  IF sell THEN self.reserve_y_per_wad - reserve_out
  ELSE self.reserve_x_per_wad - reserve_out

(* ---------------- inputs ---------------- *)

GridMax == 2
MaxIterIn == 3

Brackets == { Bisection_new(lo * Scale, hi * Scale, Eps(0, 1), 0) :
                lo \in -GridMax..GridMax, hi \in -GridMax..GridMax }

\* (epsilon, max_iter): a small budget with any tolerance, or the budget
\* 1000 of the callers with a tolerance the bracket reaches
Budgets ==
  ({Eps(0, 1), Eps(1, 4), Eps(1, 1)} \X (0..MaxIterIn))
    \cup ({Eps(1, 4), Eps(1, 1)} \X {1000})

BisectionInputs ==
  { [b EXCEPT !.epsilon = g[1], !.max_iter = g[2]] : b \in Brackets, g \in Budgets }

\* a budget that outlasts the resolution of the grid: a bracket of width 1
\* is Scale = 2^14 grid steps wide, so the 15th midpoint is between grid points
DeepIter == 16

\* brackets searched with epsilon 0.0 until the budget DeepIter is used up
DeepInputs ==
  { [b EXCEPT !.max_iter = DeepIter] : b \in Brackets }

Functions ==
  { Closure("lin", s, a, 0, NoCurve) :
      s \in {1, -1}, a \in {-Scale, 0, 5461, (3 * Scale) \div 2} }
    \cup { Closure("vee", s, a, c, NoCurve) :
      s \in {1, -1}, a \in {0, 5461}, c \in {-Scale, 0, Scale \div 2, Scale} }

\* (std_dev_f, time_remaining_sec)
VolTimes ==
  { <<Scale, 0>>, <<Scale, SECONDS_PER_YEAR>>, <<Scale \div 2, 7889238>> }

\* curves with every stored invariant of interest: 0, a small and a large
\* value, and the invariant the reserves imply (a state on its own curve)
\* the curve of the tests of src/src/math.rs, on the grid
CURVE ==
  [reserve_x_per_wad |-> 5055, reserve_y_per_wad |-> 5055,
   strike_price_f |-> Scale, std_dev_f |-> Scale,
   time_remaining_sec |-> SECONDS_PER_YEAR, invariant_f |-> 0]

Curves ==
  LET raw == { [reserve_x_per_wad |-> x, reserve_y_per_wad |-> y,
                strike_price_f |-> k, std_dev_f |-> vt[1],
                time_remaining_sec |-> vt[2], invariant_f |-> 0] :
                x \in {4096, 5055, 12288}, y \in {4096, 4097, 5055, 24576},
                k \in {Scale \div 2, Scale, 2 * Scale}, vt \in VolTimes }
  IN UNION { { [c EXCEPT !.invariant_f = i] :
                 i \in {0, -100, 4096}
                   \cup (IF IsFin(trading_function_floating(c))
                         THEN {trading_function_floating(c).v} ELSE {}) } :
             c \in raw }

Amounts == {1, 1638, 4096}

\* reserves x0 between 0.05 and 0.95 for the solvers
X0s == {820, 4096, 8192, 15564}

\* the argument of y_equals: the reserves above, the ends of [0, 1] and a
\* value outside
XArgs == X0s \cup {0, Scale, 2 * Scale}

\* the argument of x_equals: the reserves y that y_equals returns for the
\* reserves above, the ends of [0, K] for K = 1 and a value outside
YArgs(self) ==
  {0, Scale, 3 * Scale}
    \cup { y_equals(self, x0).v : x0 \in {x \in X0s : IsFin(y_equals(self, x))} }

CurveOps ==
  {"approximate_amount_out", "trading_function_floating",
   "approximate_y_given_x_floating", "approximate_x_given_y_floating",
   "y_equals", "x_equals", "get_trading_function_coordinates"}

(* ---------------- state ---------------- *)

VARIABLES
  op,          \* the entry point this run calls
  self,        \* the NormalCurve the call is made on
  sell_asset,  \* argument of approximate_amount_out
  amount_in,   \* argument of approximate_amount_out
  data,        \* the Bisection value (self of Bisection::bisection)
  fx,          \* the closure handed to Bisection::bisection
  root, distance, iterations, upper_temp, lower_temp,  \* its locals
  pc,          \* "start", "loop" (at the while test), "done", "panicked"
  ret,         \* the value the entry point returned
  arg,         \* argument of y_equals and x_equals
  probe,       \* the clone `copy` the call wrote a reserve to
  points,      \* the Vec get_trading_function_coordinates returned
  last_call,   \* Caller::last_call
  executed,    \* the outcomes of the calls the agent made, oldest first
  res_ret,     \* what the last call of Caller::res returned, and after which call
  pools,       \* RawData::pools: key -> pool_data of its PoolSeries
  mapped,      \* the Vec the last call of map_x_per_lq / map_y_per_lq returned
  sweep,       \* the locals of the sweep of analysis::trading_function::main
  task,        \* the locals of task::run and the calls it made
  sim          \* the locals of the simulation loop and what it did

vars == << op, self, sell_asset, amount_in, data, fx, root, distance,
           iterations, upper_temp, lower_temp, pc, ret, arg, probe, points,
           last_call, executed, res_ret, pools, mapped, sweep, task, sim >>

\* the state of the Caller and of the RawData
caller_vars == << last_call, executed, res_ret >>
raw_vars == << pools, mapped >>

\* the state of the analysis sweep, the arbitrageur's task and the simulation
driver_vars == << sweep, task, sim >>

\* the variables of NormalCurve and Bisection calls
curve_vars == << op, self, sell_asset, amount_in, data, fx, root, distance,
                 iterations, upper_temp, lower_temp, ret, arg, probe, points >>

\* what the calls of Bisection::bisection and approximate_amount_out leave alone
graph_vars == << arg, probe, points >>

\* the data and locals of Bisection::bisection
bisection_vars == << data, fx, root, distance, iterations, upper_temp, lower_temp >>

(* ---------------- Caller (src/src/calls.rs) ---------------- *)

\* Option::None of Call::result
None == [status |-> "none", id |-> 0]

\* impl Default for Call (from, target and args are not modelled)
Call_default == [function_name |-> "", result |-> None]

\* what self.caller.call(..) gives: Ok(res) with res a success, a revert or
\* a halt, or Err(e)
Outcomes == {"success", "revert", "halt", "error"}

MaxCalls == 3

\* the Call of a wrapper with the result of the previous call left in place
NewCall_KeepResult(function_name) ==
  [function_name |-> function_name, result |-> last_call.result]

\* the Call every wrapper hands to set_last_call: result: None
NewCall(function_name) == [function_name |-> function_name, result |-> None]

\* last_call after handle_error_gracefully(tx_result): set_last_call_result
\* runs only for Ok(res) with res.is_success(); id tells the results apart
handle_error_gracefully(call, outcome, id) ==
  IF outcome = "success"
  THEN [call EXCEPT !.result = [status |-> "success", id |-> id]]
  ELSE call

\* Caller::res: self.last_call.result.clone().ok_or(..)
res(call) ==
  IF call.result = None THEN [kind |-> "Err", result |-> None]
  ELSE [kind |-> "Ok", result |-> call.result]

(* ---------------- RawData (src/src/raw_data.rs) ---------------- *)

\* parse_ether(1.0), 10^18, scaled to the integers of the model
parse_ether_1 == 10^3

Keys == {0, 1}

\* PoolsReturn values (virtual_x, virtual_y, liquidity)
PoolSnapshots ==
  { [virtual_x |-> t[1], virtual_y |-> t[2], liquidity |-> t[3]] :
      t \in { <<1, 1, 1>>, <<1, 2, 3>>, <<3, 1, 2>>, <<2, 3, 0>> } }

MaxSnapshots == 2

map_x_total(v) == [i \in 1..Len(v) |-> v[i].virtual_x]

map_y_total(v) == [i \in 1..Len(v) |-> v[i].virtual_y]

\* map_x_per_lq reading the y totals
map_x_per_lq_YTotal(v) ==
  [i \in 1..Len(v) |-> (map_y_total(v)[i] * parse_ether_1) \div v[i].liquidity]

\* x.checked_mul(1e18).unwrap().checked_div(lq).unwrap() over the zip
map_x_per_lq(v) ==
  [i \in 1..Len(v) |-> (map_x_total(v)[i] * parse_ether_1) \div v[i].liquidity]

map_y_per_lq(v) ==
  [i \in 1..Len(v) |-> (map_y_total(v)[i] * parse_ether_1) \div v[i].liquidity]

\* checked_div(lq) is None for lq = 0, and unwrap panics
DivisionPanics(v) == \E i \in 1..Len(v) : v[i].liquidity = 0

\* Caller::new and RawData::new
HarnessNew ==
  /\ last_call = Call_default /\ executed = << >>
  /\ res_ret = [kind |-> "none", result |-> None, at |-> 0]
  /\ pools = [k \in Keys |-> << >>]
  /\ mapped = [key |-> 0, fn |-> "", out |-> << >>]

\* the sweep, the task and the simulation before they are started
SweepIdle == [pc |-> "idle"]
TaskIdle == [pc |-> "idle"]
SimIdle == [pc |-> "idle"]

DriversIdle == sweep = SweepIdle /\ task = TaskIdle /\ sim = SimIdle

Locals0 ==
  /\ root = 0 /\ distance = 0 /\ iterations = 0
  /\ upper_temp = 0 /\ lower_temp = 0
  /\ pc = "start" /\ ret = Fin(0)
  /\ probe = NoCurve /\ points = << >>

Init ==
  /\ Locals0
  /\ HarnessNew
  /\ DriversIdle
  /\ op \in {"bisection"} \cup CurveOps
  /\ IF op = "bisection"
     THEN /\ data \in BisectionInputs
          /\ fx \in Functions
          /\ self = NoCurve /\ sell_asset = FALSE /\ amount_in = 0
     ELSE /\ data = OtherReserveData
          /\ fx = Closure("lin", 1, 0, 0, NoCurve)
          /\ self \in Curves
          /\ IF op = "approximate_amount_out"
             THEN sell_asset \in BOOLEAN /\ amount_in \in Amounts
             ELSE sell_asset = FALSE /\ amount_in = 0
  /\ arg \in (CASE op = "y_equals" -> XArgs
                [] op = "x_equals" -> YArgs(self)
                [] OTHER -> {0})

\* the locals before the loop, with root started at the bracket's midpoint
EnterBisection_RootMid(b) ==
  /\ root' = Midpoint(b.lower, b.upper)
  /\ distance' = b.upper - b.lower
  /\ iterations' = 0
  /\ upper_temp' = b.upper
  /\ lower_temp' = b.lower
  /\ pc' = "loop"

\* lines 38-42 of Bisection::bisection: the locals before the loop
EnterBisection(b) ==
  /\ root' = 0
  /\ distance' = b.upper - b.lower
  /\ iterations' = 0
  /\ upper_temp' = b.upper
  /\ lower_temp' = b.lower
  /\ pc' = "loop"

\* a direct call of Bisection::bisection
bisection_call ==
  /\ pc = "start" /\ op = "bisection"
  /\ EnterBisection(data)
  /\ UNCHANGED << op, self, sell_asset, amount_in, data, fx, ret >>
  /\ UNCHANGED graph_vars
  /\ UNCHANGED << caller_vars, raw_vars, driver_vars >>

\* approximate_amount_out up to the loop of the bisection it runs through
\* approximate_other_reserve
approximate_amount_out_call ==
  /\ pc = "start" /\ op = "approximate_amount_out"
  /\ data' = OtherReserveData
  /\ fx' = OtherReserveClosure(self, sell_asset,
                               AmountOutReserveIn(self, sell_asset, amount_in))
  /\ EnterBisection(OtherReserveData)
  /\ UNCHANGED << op, self, sell_asset, amount_in, ret >>
  /\ UNCHANGED graph_vars
  /\ UNCHANGED << caller_vars, raw_vars, driver_vars >>

\* one execution of the loop body; a panic of fx unwinds the whole call
\* before either bound or the count is written
bisection_iter ==
  /\ pc = "loop"
  /\ LoopGuard(data, distance, iterations)
  /\ \E output \in {Apply(fx, Midpoint(lower_temp, upper_temp))},
        at_lower \in {Apply(fx, lower_temp)} :
       LET mid == Midpoint(lower_temp, upper_temp)
           panics == output.k = "panic" \/ at_lower.k = "panic"
           new_upper == IF ~panics /\ MovesUpper(output, at_lower) THEN mid ELSE upper_temp
           new_lower == IF ~panics /\ ~MovesUpper(output, at_lower) THEN mid ELSE lower_temp
       IN /\ root' = mid
          /\ upper_temp' = new_upper
          /\ lower_temp' = new_lower
          /\ distance' = IF panics THEN distance ELSE new_upper - new_lower
          /\ iterations' = IF panics THEN iterations ELSE iterations + 1
          /\ pc' = IF panics THEN "panicked" ELSE "loop"
  /\ UNCHANGED << op, self, sell_asset, amount_in, data, fx, ret >>
  /\ UNCHANGED graph_vars
  /\ UNCHANGED << caller_vars, raw_vars, driver_vars >>

\* the loop ends: bisection returns root, and approximate_amount_out turns
\* it into the amount out
bisection_return ==
  /\ pc = "loop"
  /\ ~LoopGuard(data, distance, iterations)
  /\ ret' = IF op = "approximate_amount_out"
            THEN Fin(AmountOutResult(self, sell_asset, root))
            ELSE Fin(root)
  /\ pc' = "done"
  /\ UNCHANGED << op, self, sell_asset, amount_in, data, fx, root, distance,
                  iterations, upper_temp, lower_temp >>
  /\ UNCHANGED graph_vars
  /\ UNCHANGED << caller_vars, raw_vars, driver_vars >>

\* a call of trading_function_floating whose result also depends on a
\* source of noise outside the state
trading_function_floating_call_Noisy ==
  /\ pc = "start" /\ op = "trading_function_floating"
  /\ \E noise \in {0, 1} :
       ret' = AddF(trading_function_floating(self), Fin(noise))
  /\ pc' = IF ret'.k = "panic" THEN "panicked" ELSE "done"
  /\ UNCHANGED << op, self, sell_asset, amount_in, data, fx, root, distance,
                  iterations, upper_temp, lower_temp >>
  /\ UNCHANGED graph_vars
  /\ UNCHANGED << caller_vars, raw_vars, driver_vars >>

\* a call of trading_function_floating
trading_function_floating_call ==
  /\ pc = "start" /\ op = "trading_function_floating"
  /\ ret' = trading_function_floating(self)
  /\ pc' = IF ret'.k = "panic" THEN "panicked" ELSE "done"
  /\ UNCHANGED << op, self, sell_asset, amount_in, data, fx, root, distance,
                  iterations, upper_temp, lower_temp >>
  /\ UNCHANGED graph_vars
  /\ UNCHANGED << caller_vars, raw_vars, driver_vars >>

\* a call of approximate_y_given_x_floating
approximate_y_given_x_floating_call ==
  /\ pc = "start" /\ op = "approximate_y_given_x_floating"
  /\ ret' = approximate_y_given_x_floating(self)
  /\ pc' = IF ret'.k = "panic" THEN "panicked" ELSE "done"
  /\ UNCHANGED << op, self, sell_asset, amount_in, bisection_vars, graph_vars >>
  /\ UNCHANGED << caller_vars, raw_vars, driver_vars >>

\* a call of approximate_x_given_y_floating
approximate_x_given_y_floating_call ==
  /\ pc = "start" /\ op = "approximate_x_given_y_floating"
  /\ ret' = approximate_x_given_y_floating(self)
  /\ pc' = IF ret'.k = "panic" THEN "panicked" ELSE "done"
  /\ UNCHANGED << op, self, sell_asset, amount_in, bisection_vars, graph_vars >>
  /\ UNCHANGED << caller_vars, raw_vars, driver_vars >>

\* y_equals writing the argument to self instead of to a clone
y_equals_call_Aliased ==
  /\ pc = "start" /\ op = "y_equals"
  /\ probe' = [self EXCEPT !.reserve_x_per_wad = arg]
  /\ self' = probe'
  /\ ret' = approximate_y_given_x_floating(probe')
  /\ pc' = IF ret'.k = "panic" THEN "panicked" ELSE "done"
  /\ UNCHANGED << op, sell_asset, amount_in, bisection_vars, arg, points >>
  /\ UNCHANGED << caller_vars, raw_vars, driver_vars >>

\* Graphable::y_equals(arg)
y_equals_call ==
  /\ pc = "start" /\ op = "y_equals"
  /\ probe' = [self EXCEPT !.reserve_x_per_wad = arg]
  /\ ret' = approximate_y_given_x_floating(probe')
  /\ pc' = IF ret'.k = "panic" THEN "panicked" ELSE "done"
  /\ UNCHANGED << op, self, sell_asset, amount_in, bisection_vars, arg, points >>
  /\ UNCHANGED << caller_vars, raw_vars, driver_vars >>

\* Graphable::x_equals(arg)
x_equals_call ==
  /\ pc = "start" /\ op = "x_equals"
  /\ probe' = [self EXCEPT !.reserve_y_per_wad = arg]
  /\ ret' = approximate_x_given_y_floating(probe')
  /\ pc' = IF ret'.k = "panic" THEN "panicked" ELSE "done"
  /\ UNCHANGED << op, self, sell_asset, amount_in, bisection_vars, arg, points >>
  /\ UNCHANGED << caller_vars, raw_vars, driver_vars >>

\* a call of get_trading_function_coordinates: a panic of the first
\* evaluation unwinds the call after the first write to the clone
get_trading_function_coordinates_call ==
  /\ pc = "start" /\ op = "get_trading_function_coordinates"
  /\ \E y \in {approximate_y_given_x_floating(self)} :
       IF y.k = "panic"
       THEN /\ probe' = [self EXCEPT !.reserve_x_per_wad = CoordinateX(1)]
            /\ points' = points
            /\ pc' = "panicked"
       ELSE /\ probe' = [self EXCEPT !.reserve_x_per_wad = CoordinateX(100)]
            /\ points' = get_trading_function_coordinates(self)
            /\ pc' = "done"
  /\ UNCHANGED << op, self, sell_asset, amount_in, bisection_vars, arg, ret >>
  /\ UNCHANGED << caller_vars, raw_vars, driver_vars >>

Next ==
  \/ bisection_call
  \/ approximate_amount_out_call
  \/ bisection_iter
  \/ bisection_return
  \/ trading_function_floating_call
  \/ approximate_y_given_x_floating_call
  \/ approximate_x_given_y_floating_call
  \/ y_equals_call
  \/ x_equals_call
  \/ get_trading_function_coordinates_call

Spec == Init /\ [][Next]_vars

\* the direct calls of Bisection::bisection, run to their end without
\* interruption: a step of the call that can be taken is eventually taken
BisectionNext ==
  \/ bisection_call
  \/ bisection_iter
  \/ bisection_return

BisectionInit == op = "bisection" /\ Init

BisectionSpec == BisectionInit /\ [][BisectionNext]_vars /\ WF_vars(BisectionNext)

\* Bisection::bisection with epsilon 0.0 and a budget beyond the resolution
\* of the numbers
HalvingInit ==
  /\ Locals0
  /\ HarnessNew
  /\ DriversIdle
  /\ op = "bisection"
  /\ data \in DeepInputs
  /\ fx \in Functions
  /\ self = NoCurve /\ sell_asset = FALSE /\ amount_in = 0
  /\ arg = 0

HalvingSpec == HalvingInit /\ [][BisectionNext]_vars

(* ---------------- the Caller ---------------- *)

\* a wrapper: set_last_call with a fresh Call, the agent's call, then
\* handle_error_gracefully on what it gave
Wrapper(function_name) ==
  /\ Len(executed) < MaxCalls
  /\ \E outcome \in Outcomes :
       /\ last_call' = handle_error_gracefully(NewCall(function_name), outcome,
                                               Len(executed) + 1)
       /\ executed' = Append(executed, outcome)
  /\ UNCHANGED << res_ret, pc, curve_vars, driver_vars, raw_vars >>

\* Caller::call(contract, function_name, args)
Caller_call ==
  /\ pc = "start" /\ op = "Caller"
  /\ \E function_name \in {"mint", "deposit"} : Wrapper(function_name)

Caller_balance_of ==
  /\ pc = "start" /\ op = "Caller"
  /\ Wrapper("balanceOf")

Caller_approve ==
  /\ pc = "start" /\ op = "Caller"
  /\ Wrapper("approve")

Caller_transfer_from ==
  /\ pc = "start" /\ op = "Caller"
  /\ Wrapper("transferFrom")

\* allocate: amount_f = 0.0 makes amount U256::MAX, and amount.as_u128()
\* panics before set_last_call
Caller_allocate ==
  /\ pc = "start" /\ op = "Caller"
  /\ \E amount_is_zero \in BOOLEAN :
       IF amount_is_zero
       THEN /\ Len(executed) < MaxCalls
            /\ pc' = "panicked"
            /\ UNCHANGED << caller_vars, curve_vars, driver_vars, raw_vars >>
       ELSE Wrapper("allocate")

Caller_swap ==
  /\ pc = "start" /\ op = "Caller"
  /\ Wrapper("swap")

\* Caller::res
Caller_res ==
  /\ pc = "start" /\ op = "Caller"
  /\ res_ret' = [kind |-> res(last_call).kind, result |-> res(last_call).result,
                 at |-> Len(executed)]
  /\ UNCHANGED << last_call, executed, pc, curve_vars, driver_vars, raw_vars >>

\* the values the curve variables have in a run of the Caller or the RawData
CurveIdle ==
  /\ Locals0
  /\ data = OtherReserveData /\ fx = Closure("lin", 1, 0, 0, NoCurve)
  /\ self = NoCurve /\ sell_asset = FALSE /\ amount_in = 0 /\ arg = 0

CallerInit == op = "Caller" /\ CurveIdle /\ HarnessNew /\ DriversIdle

CallerNext ==
  \/ Caller_call
  \/ Caller_balance_of
  \/ Caller_approve
  \/ Caller_transfer_from
  \/ Caller_allocate
  \/ Caller_swap
  \/ Caller_res

CallerSpec == CallerInit /\ [][CallerNext]_vars

(* ---------------- the RawData ---------------- *)

\* RawData::add_pool_data(key, pool_data)
add_pool_data ==
  /\ pc = "start" /\ op = "RawData"
  /\ \E key \in Keys, pool_data \in PoolSnapshots :
       /\ Len(pools[key]) < MaxSnapshots
       /\ pools' = [pools EXCEPT ![key] = Append(@, pool_data)]
  /\ UNCHANGED << mapped, pc, curve_vars, driver_vars, caller_vars >>

\* map_x_per_lq on the pool_data recorded under a key
map_x_per_lq_call ==
  /\ pc = "start" /\ op = "RawData"
  /\ \E key \in Keys :
       /\ pools[key] # << >>
       /\ IF DivisionPanics(pools[key])
          THEN pc' = "panicked" /\ mapped' = mapped
          ELSE /\ pc' = pc
               /\ mapped' = [key |-> key, fn |-> "map_x_per_lq",
                             out |-> map_x_per_lq(pools[key])]
  /\ UNCHANGED << pools, curve_vars, driver_vars, caller_vars >>

\* map_y_per_lq on the pool_data recorded under a key
map_y_per_lq_call ==
  /\ pc = "start" /\ op = "RawData"
  /\ \E key \in Keys :
       /\ pools[key] # << >>
       /\ IF DivisionPanics(pools[key])
          THEN pc' = "panicked" /\ mapped' = mapped
          ELSE /\ pc' = pc
               /\ mapped' = [key |-> key, fn |-> "map_y_per_lq",
                             out |-> map_y_per_lq(pools[key])]
  /\ UNCHANGED << pools, curve_vars, driver_vars, caller_vars >>

RawDataInit == op = "RawData" /\ CurveIdle /\ HarnessNew /\ DriversIdle

RawDataNext ==
  \/ add_pool_data
  \/ map_x_per_lq_call
  \/ map_y_per_lq_call

RawDataSpec == RawDataInit /\ [][RawDataNext]_vars

(* ---------------- the sweep of the trading-function analysis ---------------- *)

\* static STEP: f64 = 0.001
STEP == [num |-> 1, den |-> 1000]

\* x after n additions of STEP is n * STEP plus the rounding error of the
\* additions; of the error its sign, drift, is kept.  x <= 1.0:
SweepLeqOne(n, drift) ==
  \/ n * STEP.num < STEP.den
  \/ n * STEP.num = STEP.den /\ drift <= 0

\* 0.0 < x < 1.0
SweepInDomain(n, drift) ==
  /\ n >= 1
  /\ \/ n * STEP.num < STEP.den
     \/ n * STEP.num = STEP.den /\ drift < 0

\* x as a fixed-point number: the drift shows where n * STEP is a grid point
SweepX(n, drift) ==
  (n * STEP.num * Scale) \div STEP.den
    + (IF (n * STEP.num * Scale) % STEP.den = 0 THEN drift ELSE 0)

\* let mut input_rs, x = 0.0, y = 0.0 and the empty vectors
SweepStart ==
  [pc |-> "loop", n |-> 0, drift |-> 0, input_rs |-> CURVE, y |-> Fin(0),
   rs_len |-> 0, sol_len |-> 0, inputs_len |-> 0]

\* while x <= 1.0 with x += STEP after the test
sweep_loop ==
  /\ op = "analysis" /\ sweep.pc = "loop"
  /\ IF SweepLeqOne(sweep.n, sweep.drift)
     THEN \E drift \in {-1, 0, 1}, outcome \in Outcomes :
            LET n == sweep.n + 1
                input_rs == [sweep.input_rs EXCEPT
                               !.reserve_x_per_wad = SweepX(n, drift)]
                y == approximate_y_given_x_floating(input_rs)
            IN sweep' =
                 IF y.k = "panic"
                 THEN [sweep EXCEPT !.pc = "panicked", !.n = n, !.drift = drift,
                                    !.input_rs = input_rs]
                 ELSE [sweep EXCEPT
                         !.pc = IF outcome = "success" THEN "loop" ELSE "err",
                         !.n = n, !.drift = drift, !.y = y,
                         !.input_rs = [input_rs EXCEPT
                            !.reserve_y_per_wad = IF IsFin(y) THEN y.v ELSE @],
                         !.rs_len = @ + 1,
                         !.sol_len = IF outcome = "success" THEN @ + 1 ELSE @,
                         !.inputs_len = IF outcome = "success" THEN @ + 1 ELSE @]
     ELSE sweep' = [sweep EXCEPT !.pc = "collected"]
  /\ UNCHANGED << pc, curve_vars, caller_vars, raw_vars, task, sim >>

SweepInit ==
  /\ op = "analysis" /\ CurveIdle /\ HarnessNew
  /\ sweep = SweepStart /\ task = TaskIdle /\ sim = SimIdle

SweepNext == sweep_loop

SweepSpec == SweepInit /\ [][SweepNext]_vars

(* ---------------- the arbitrageur's task ---------------- *)

\* common::BASIS_POINT_DIVISOR
BASIS_POINT_DIVISOR == 10000

\* let mut max_iter = 100; // limit to 100 tries.
task_max_iter == 100

\* u128::MAX, narrowed as parse_ether_1 is: the largest value an Order's
\* input and output can hold
u128_MAX == 2^20 - 1

Some(v) == [k |-> "Some", v |-> v]
Option_None == [k |-> "None", v |-> ""]

\* the bounds check with the upper bound forgotten
check_no_arb_bounds_LowerOnly(current_price, target_price, fee) ==
  IF fee = 0 THEN [k |-> "panic", v |-> ""]
  ELSE
    LET lower_arb_bound == (current_price * fee) \div parse_ether_1
    IN IF target_price < lower_arb_bound
       THEN (IF current_price < target_price
             THEN Some("SwapXToY") ELSE Some("SwapYToX"))
       ELSE Some("None")

\* check_no_arb_bounds: checked_div(fee).unwrap() panics for fee = 0
check_no_arb_bounds(current_price, target_price, fee) ==
  IF fee = 0 THEN [k |-> "panic", v |-> ""]
  ELSE
    LET upper_arb_bound == (current_price * parse_ether_1) \div fee
        lower_arb_bound == (current_price * fee) \div parse_ether_1
    IN IF (target_price > upper_arb_bound) \/ (target_price < lower_arb_bound)
       THEN (IF current_price < target_price
             THEN Some("SwapXToY") ELSE Some("SwapYToX"))
       ELSE Some("None")

\* run, lines 92-96: the pool's fee doubled, as a wad share of the price
ArbFee(fee_basis_points) ==
  ((BASIS_POINT_DIVISOR - fee_basis_points * 2) * parse_ether_1)
    \div BASIS_POINT_DIVISOR

\* the retried order with the output left as it was
ReducedOrder_Same(order) == order

\* order.output = order.output.checked_mul(999).unwrap().checked_div(1000).unwrap()
ReducedOrder(order) ==
  [order EXCEPT !.output = (order.output * 999) \div 1000]

\* checked_mul(999_u128) is None
ReducePanics(order) == order.output * 999 > u128_MAX

\* prices in wad: target prices around the arbitrage bounds of 1.0
PricesWad == {0, 993, 994, 1000, 1006, 1007}
CurrentPricesWad == {0, 1000}
FeeBasisPoints == {0, 30, 5000}

\* what computeArbInput and getAmountOut return, per unit of liquidity
InputsWad == {0, 500}
OutputsWad == {0, 1001, u128_MAX}
Liquidities == {parse_ether_1, 2 * parse_ether_1}

Order(pool_id, input, output, sell) ==
  [use_max |-> FALSE, pool_id |-> pool_id, input |-> input, output |-> output,
   sell_asset |-> sell]

\* run entered with a target price; swaps and trades count the swap calls on
\* the portfolio and the trade calls on the exchange, attempt and trade are
\* the last of them
TaskStart(price) ==
  [pc |-> "start", result |-> "none", target_price_wad |-> price,
   current_price_wad |-> 0, fee |-> 0, direction |-> Option_None,
   swap_order |-> Option_None, order |-> Order(0, 0, 0, FALSE),
   max_iter |-> 0, swap_success |-> FALSE,
   swaps |-> 0, attempt |-> [order |-> Order(0, 0, 0, FALSE), outcome |-> ""],
   trades |-> 0, trade |-> [args |-> [sell_asset |-> FALSE, amount |-> 0],
                            outcome |-> "", result |-> FALSE]]

\* run returns
TaskReturn(t, result) == [t EXCEPT !.pc = "returned", !.result = result]

TaskPanic(t) == [t EXCEPT !.pc = "panicked"]

\* lines 76-78: caller.call(portfolio, "getSpotPrice", ..)?.decoded(portfolio)?
task_get_spot_price(t, outcome, current_price_wad) ==
  IF outcome # "success"
  THEN TaskReturn(t, "Err")
  ELSE [t EXCEPT !.pc = "pools", !.current_price_wad = current_price_wad]

\* the successors of lines 88-123: the pools call, the fee, the direction and
\* the match on it
task_check_direction(t, outcome, fee_basis_points) ==
  IF outcome # "success" THEN TaskReturn(t, "Err")
  ELSE
    LET fee == ArbFee(fee_basis_points)
        direction == check_no_arb_bounds(t.current_price_wad,
                                         t.target_price_wad, fee)
        checked == [t EXCEPT !.fee = fee, !.direction = direction]
    IN CASE direction.k = "panic" -> TaskPanic([t EXCEPT !.fee = fee])
         [] direction = Some("None") -> TaskReturn(checked, "Ok")
         [] direction = Option_None -> TaskReturn(checked, "Ok")
         [] OTHER -> [checked EXCEPT !.pc = "order"]

\* an order that is never taken to be empty
OrderIsEmpty_Never(order) == FALSE

\* if swap_order.input == 0
OrderIsEmpty(order) == order.input = 0

\* get_swap_order and lines 126-143 of run.  The calls:
\* computeArbInput (a call error is returned, a revert leaves (false, 0)),
\* getAmountOut unless the input is 0 (unwrapped), pools (unwrapped)
task_get_swap_order(t, arb, amount_out, pool, swap_x_in, input, output, liquidity) ==
  IF arb = "error" THEN TaskReturn(t, "Err")
  ELSE
    LET sell == IF arb = "success" THEN swap_x_in ELSE FALSE
        order_input_wad_per_liq == IF arb = "success" THEN input ELSE 0
        order_output_wad_per_liq ==
          IF order_input_wad_per_liq = 0 THEN 0 ELSE output
        order_input_total_wad ==
          (order_input_wad_per_liq * liquidity) \div parse_ether_1
        order_output_total_wad ==
          (order_output_wad_per_liq * liquidity) \div parse_ether_1
        swap_order == Order(0, order_input_total_wad, order_output_total_wad, sell)
    IN IF \/ order_input_wad_per_liq # 0 /\ amount_out # "success"
          \/ pool # "success"
          \/ order_input_total_wad > u128_MAX
          \/ order_output_total_wad > u128_MAX
       THEN TaskPanic(t)
       ELSE IF OrderIsEmpty(swap_order)
       THEN TaskReturn([t EXCEPT !.swap_order = Some(swap_order)], "Ok")
       ELSE [t EXCEPT !.pc = "loop", !.swap_order = Some(swap_order),
                      !.order = swap_order, !.max_iter = task_max_iter,
                      !.swap_success = FALSE]

\* while !swap_success && max_iter > 0
RetryGuard_NoLimit(t) == ~t.swap_success

RetryGuard(t) == ~t.swap_success /\ t.max_iter > 0

\* one pass of the retry loop, lines 146-180
task_swap_attempt(t, outcome) ==
  LET tried == [t EXCEPT !.max_iter = @ - 1,
                         !.swaps = @ + 1,
                         !.attempt = [order |-> t.order, outcome |-> outcome]]
  IN CASE outcome = "error" -> TaskReturn(tried, "Err")
       [] outcome = "success" -> [tried EXCEPT !.swap_success = TRUE]
       [] OTHER ->
            IF ReducePanics(t.order) THEN TaskPanic(tried)
            ELSE [tried EXCEPT !.order = ReducedOrder(t.order)]

\* the trade with the amount first quoted instead of the amount swapped
TradeArgs_Quoted(t) ==
  [sell_asset |-> ~t.order.sell_asset, amount |-> t.swap_order.v.output]

\* the arguments of the trade: !order.sell_asset, order.output
TradeArgs(t) ==
  [sell_asset |-> ~t.order.sell_asset, amount |-> t.order.output]

\* a task that trades whether or not a swap went through
TradesAfter_Always(t) == TRUE

\* if swap_success
TradesAfter(t) == t.swap_success

\* lines 183-210: the trade on the exchange after a successful swap
task_trade(t, outcome, trade_call_result) ==
  IF TradesAfter(t)
  THEN LET traded == [t EXCEPT
                        !.trades = @ + 1,
                        !.trade = [args |-> TradeArgs(t), outcome |-> outcome,
                                   result |-> outcome = "success"
                                                /\ trade_call_result]]
       IN IF outcome = "success" /\ trade_call_result
          THEN TaskReturn(traded, "Ok")
          ELSE TaskReturn(traded, "Err")
  ELSE TaskReturn(t, "Ok")

\* the step of task::run that is next in state t, on what the contracts
\* answer
TaskSteps(t) ==
  CASE t.pc = "start" ->
         { task_get_spot_price(t, outcome, p) :
             outcome \in Outcomes, p \in CurrentPricesWad }
    [] t.pc = "pools" ->
         { task_check_direction(t, outcome, bps) :
             outcome \in Outcomes, bps \in FeeBasisPoints }
    [] t.pc = "order" ->
         { task_get_swap_order(t, arb, amount_out, pool, swap_x_in, input,
                               output, liquidity) :
             arb \in Outcomes, amount_out \in {"success", "revert"},
             pool \in {"success", "revert"}, swap_x_in \in BOOLEAN,
             input \in InputsWad, output \in OutputsWad,
             liquidity \in Liquidities }
    [] t.pc = "loop" /\ RetryGuard(t) ->
         { task_swap_attempt(t, outcome) : outcome \in Outcomes }
    [] t.pc = "loop" /\ ~RetryGuard(t) ->
         { task_trade(t, outcome, r) : outcome \in Outcomes, r \in BOOLEAN }
    [] OTHER -> {}

TaskFrame == UNCHANGED << pc, curve_vars, caller_vars, raw_vars, sweep, sim >>

run_get_spot_price ==
  /\ op = "task" /\ task.pc = "start"
  /\ task' \in TaskSteps(task)
  /\ TaskFrame

run_check_direction ==
  /\ op = "task" /\ task.pc = "pools"
  /\ task' \in TaskSteps(task)
  /\ TaskFrame

run_get_swap_order ==
  /\ op = "task" /\ task.pc = "order"
  /\ task' \in TaskSteps(task)
  /\ TaskFrame

run_swap_attempt ==
  /\ op = "task" /\ task.pc = "loop" /\ RetryGuard(task)
  /\ task' \in TaskSteps(task)
  /\ TaskFrame

run_trade ==
  /\ op = "task" /\ task.pc = "loop" /\ ~RetryGuard(task)
  /\ task' \in TaskSteps(task)
  /\ TaskFrame

TaskInit ==
  /\ op = "task" /\ CurveIdle /\ HarnessNew
  /\ sweep = SweepIdle /\ sim = SimIdle
  /\ task \in { TaskStart(price) : price \in PricesWad }

TaskNext ==
  \/ run_get_spot_price
  \/ run_check_direction
  \/ run_get_swap_order
  \/ run_swap_attempt
  \/ run_trade

TaskSpec == TaskInit /\ [][TaskNext]_vars

(* ---------------- the simulation loop ---------------- *)

\* the longest price path
MaxPrices == 3

\* the price paths generate_price_path returns: at least the initial price
PricePaths ==
  UNION { [1..n -> {1000, 1100}] : n \in 1..MaxPrices }

\* main from `step::run(&manager, prices[0])` on: the exchange's price, the
\* target prices task::run was called with, the snapshots log::run took, the
\* index of the price the loop is at
SimStart(prices) ==
  [pc |-> "first_step", prices |-> prices, i |-> 1, exchange_price |-> 0,
   tasks |-> << >>, snapshots |-> << >>, result |-> "none",
   csv_written |-> FALSE]

SimReturn(s, result) == [s EXCEPT !.pc = "returned", !.result = result]

\* step::run that calls setPrice and drops the price
step_run_NoPrice(s, price, outcome) ==
  IF outcome # "success" THEN SimReturn(s, "Err") ELSE s

\* step::run(manager, price)?: setPrice on the exchange, res()?
step_run(s, price, outcome) ==
  IF outcome # "success" THEN SimReturn(s, "Err")
  ELSE [s EXCEPT !.exchange_price = price]

\* log::run(..)?: one snapshot of the balances, the pool and the prices, the
\* reference price being the exchange's
log_run(s, outcome) ==
  IF outcome # "success" THEN SimReturn(s, "Err")
  ELSE [s EXCEPT !.snapshots =
          Append(@, [reference_price |-> s.exchange_price,
                     tasks_run |-> Len(s.tasks)])]

\* task::run(manager, price, pool_id)?, by what it returns
task_run(s, price, result) ==
  LET ran == [s EXCEPT !.tasks = Append(@, price)]
  IN CASE result = "Ok" -> ran
       [] result = "Err" -> SimReturn(ran, "Err")
       [] OTHER -> [ran EXCEPT !.pc = "panicked"]

\* where the loop goes after the price at index i is done
LoopOrWrite(s, i) ==
  IF i > Len(s.prices) THEN "write" ELSE "task"

SimFrame == UNCHANGED << pc, curve_vars, caller_vars, raw_vars, sweep, task >>

\* step::run(&manager, prices[0])?
sim_first_step ==
  /\ op = "sim" /\ sim.pc = "first_step"
  /\ \E outcome \in Outcomes :
       \E s \in {step_run(sim, sim.prices[1], outcome)} :
         sim' = IF s.pc = "returned" THEN s ELSE [s EXCEPT !.pc = "first_log"]
  /\ SimFrame

\* log::run(..)? before the loop
sim_first_log ==
  /\ op = "sim" /\ sim.pc = "first_log"
  /\ \E outcome \in Outcomes :
       \E s \in {log_run(sim, outcome)} :
         sim' = IF s.pc = "returned" THEN s
                ELSE [s EXCEPT !.i = 2, !.pc = LoopOrWrite(s, 2)]
  /\ SimFrame

\* task::run(&manager, *price, pool_id)? in the loop
sim_task ==
  /\ op = "sim" /\ sim.pc = "task"
  /\ \E result \in {"Ok", "Err", "panicked"} :
       \E s \in {task_run(sim, sim.prices[sim.i], result)} :
         sim' = IF s.pc \in {"returned", "panicked"} THEN s
                ELSE [s EXCEPT !.pc = "log"]
  /\ SimFrame

\* log::run(..)? in the loop
sim_log ==
  /\ op = "sim" /\ sim.pc = "log"
  /\ \E outcome \in Outcomes :
       \E s \in {log_run(sim, outcome)} :
         sim' = IF s.pc = "returned" THEN s ELSE [s EXCEPT !.pc = "step"]
  /\ SimFrame

\* step::run(&manager, *price)? in the loop, and the loop's next price
sim_step ==
  /\ op = "sim" /\ sim.pc = "step"
  /\ \E outcome \in Outcomes :
       \E s \in {step_run(sim, sim.prices[sim.i], outcome)} :
         sim' = IF s.pc = "returned" THEN s
                ELSE [s EXCEPT !.i = @ + 1, !.pc = LoopOrWrite(s, sim.i + 1)]
  /\ SimFrame

\* raw_data_container.write_to_disk(&path, pool_id)? and the rest of main
sim_write ==
  /\ op = "sim" /\ sim.pc = "write"
  /\ \E written \in BOOLEAN :
       sim' = IF written
              THEN SimReturn([sim EXCEPT !.csv_written = TRUE], "Ok")
              ELSE SimReturn(sim, "Err")
  /\ SimFrame

SimInit ==
  /\ op = "sim" /\ CurveIdle /\ HarnessNew
  /\ sweep = SweepIdle /\ task = TaskIdle
  /\ sim \in { SimStart(prices) : prices \in PricePaths }

SimNext ==
  \/ sim_first_step
  \/ sim_first_log
  \/ sim_task
  \/ sim_log
  \/ sim_step
  \/ sim_write

SimSpec == SimInit /\ [][SimNext]_vars

(* ======================= properties ======================= *)

\* a step that executes the loop body of Bisection::bisection to its end
IterStep == iterations' = iterations + 1

\* |a - b| <= epsilon for fixed-point a, b
WithinEpsilon(a, b, epsilon) == Abs(a - b) * epsilon.den <= epsilon.num * Scale

\* f(lower) * f(upper) <= 0 for the bracket of data
SignChange == ProductLeqZero(Apply(fx, data.lower), Apply(fx, data.upper))

(* C1: in every iteration of Bisection::bisection mid is (lo + hi) / 2 and
   exactly one bound moves to it: hi when f(mid) * f(lo) <= 0, otherwise lo;
   the other bound is unchanged; lo and hi start as lower and upper. *)
C1_IterationMovesOneBound ==
  [][ /\ (pc = "start" /\ pc' = "loop") =>
           (lower_temp' = data'.lower /\ upper_temp' = data'.upper)
      /\ IterStep =>
           /\ 2 * root' = lower_temp + upper_temp
           /\ IF ProductLeqZero(Apply(fx, root'), Apply(fx, lower_temp))
              THEN upper_temp' = root' /\ lower_temp' = lower_temp
              ELSE lower_temp' = root' /\ upper_temp' = upper_temp ]_vars

\* both branches taken in one run, one of them on a zero of f
C1_Witness ==
  /\ op = "bisection" /\ iterations >= 2
  /\ lower_temp # data.lower /\ upper_temp # data.upper
  /\ SignOf(Apply(fx, upper_temp)) = 0

(* C2: for a continuous f with f(lower) * f(upper) <= 0 on a bracket
   lower < upper, when the bisection stops because hi - lo <= epsilon (its
   budget max_iter is not used up) the value it returns is within epsilon of
   a zero of f. *)
C2_WithinEpsilonOfRoot ==
  (pc = "done" /\ op = "bisection" /\ data.lower < data.upper /\ SignChange
     /\ ~ExceedsEpsilon(distance, data.epsilon) /\ iterations < data.max_iter)
    => \E r \in Roots(fx) : WithinEpsilon(ret.v, r, data.epsilon)

(* C3: Bisection::bisection always terminates; the body runs only while
   hi - lo > epsilon and the count is below max_iter, the loop is left at
   the first count at which hi - lo <= epsilon or the count is max_iter,
   and the body never runs more than max_iter times. *)
C3_Terminates ==
  /\ <>(pc \in {"done", "panicked"})
  /\ [](iterations <= data.max_iter)
  /\ [][ /\ IterStep =>
              (ExceedsEpsilon(distance, data.epsilon) /\ iterations < data.max_iter)
         /\ (pc = "loop" /\ pc' = "done") =>
              (~ExceedsEpsilon(distance, data.epsilon) \/ iterations = data.max_iter)
       ]_vars

\* a run that used up its budget with the bracket still wider than epsilon
C3_Witness ==
  /\ pc = "done" /\ op = "bisection"
  /\ iterations = data.max_iter /\ iterations >= 2
  /\ ExceedsEpsilon(distance, data.epsilon)

(* C4: Bisection::bisection returns the midpoint computed in the last
   executed iteration; when no iteration executes it returns 0.0 whatever
   the bracket; the value returned is a plain finite number whether the
   budget ran out or the bracket converged. *)
C4_ReturnsLastMidpoint ==
  [][ /\ IterStep => 2 * root' = lower_temp + upper_temp
      /\ (pc = "loop" /\ pc' = "done" /\ op = "bisection") =>
           /\ ret' = Fin(root)
           /\ iterations = 0 => ret' = Fin(0) ]_vars

\* no iteration ran on a bracket that does not contain 0
C4_Witness ==
  /\ pc = "done" /\ op = "bisection" /\ iterations = 0
  /\ 0 < data.lower /\ data.lower < data.upper
  /\ ret = Fin(0)

\* f(lower) * f(upper) > 0
BadBracket ==
  SignOf(Apply(fx, data.lower)) * SignOf(Apply(fx, data.upper)) > 0

\* f has no zero in [lower, upper]
NoRootInBracket ==
  \A r \in Roots(fx) : r < data.lower \/ r > data.upper

(* C5 as stated: for a bracket whose endpoints have the same sign every
   iteration moves lo up to mid and hi stays equal to upper. *)
C5_BadBracketPushesLower ==
  [][ (op = "bisection" /\ BadBracket /\ IterStep) =>
        (lower_temp' = root' /\ upper_temp' = data.upper) ]_vars

(* C5 amended: for a bracket on which f has no zero, no error is raised,
   every iteration moves lo up to mid and hi stays equal to upper, and after
   n >= 1 iterations the value returned is upper - (upper - lower) / 2^n. *)
C5_NoRootPushesLower ==
  /\ [][ (op = "bisection" /\ NoRootInBracket /\ IterStep) =>
           (lower_temp' = root' /\ upper_temp' = data.upper) ]_vars
  /\ []((op = "bisection" /\ NoRootInBracket) => pc # "panicked")
  /\ []((op = "bisection" /\ NoRootInBracket /\ pc = "done" /\ iterations >= 1) =>
          (data.upper - ret.v) * 2^iterations = data.upper - data.lower)

\* a run on a bracket without a zero that returned after several iterations
C5_Witness ==
  /\ op = "bisection" /\ pc = "done" /\ NoRootInBracket /\ BadBracket
  /\ iterations >= 3 /\ ret.v = lower_temp /\ upper_temp = data.upper

\* the domains of the data model: 0 < x < 1, 0 < y / K < 1, K > 0
Valid(c) ==
  /\ 0 < c.reserve_x_per_wad /\ c.reserve_x_per_wad < Scale
  /\ 0 < c.strike_price_f
  /\ 0 < c.reserve_y_per_wad /\ c.reserve_y_per_wad < c.strike_price_f
  /\ c.std_dev_f >= 0 /\ c.time_remaining_sec >= 0

\* the stored invariant is the invariant the reserves imply
OnCurve(c) == trading_function_floating(c) = Fin(c.invariant_f)

\* the function whose root C6 says is searched for: the invariant of the
\* state with the known reserve set and the candidate v for the other one,
\* minus the invariant field of the state the call is made on nudged by 1e-18
C6_Target(v) ==
  IF sell_asset
  THEN SubF(trading_function_floating(
              [self EXCEPT !.reserve_x_per_wad = self.reserve_x_per_wad + amount_in,
                           !.reserve_y_per_wad = v]),
            AddTiny(self.invariant_f, 1))
  ELSE SubF(trading_function_floating(
              [self EXCEPT !.reserve_y_per_wad = self.reserve_y_per_wad + amount_in,
                           !.reserve_x_per_wad = v]),
            AddTiny(self.invariant_f, -1))

(* C6: approximate_other_reserve searches for the reserve that keeps the
   invariant at the level stored in the state it is called on: on a clone
   with the known reserve set (x when sell_asset, else y) each iteration
   decides by the sign of invariant(clone with the other reserve = v)
   - (invariant_f + 1e-18), resp. - (invariant_f - 1e-18), and when that
   function changes sign on [0, 1] the search ends on a 2^-14 wide bracket
   of the sign change with the returned reserve one of its ends. *)
C6_SearchesInvariantLevel ==
  /\ [][ (op = "approximate_amount_out" /\ IterStep) =>
           ((upper_temp' = root' /\ lower_temp' = lower_temp)
              <=> ProductLeqZero(C6_Target(root'), C6_Target(lower_temp))) ]_vars
  /\ []((op = "approximate_amount_out" /\ pc = "done"
           /\ SignOf(C6_Target(0)) < 0 /\ SignOf(C6_Target(Scale)) > 0) =>
          /\ SignOf(C6_Target(lower_temp)) <= 0
          /\ SignOf(C6_Target(upper_temp)) >= 0
          /\ upper_temp - lower_temp = 1
          /\ root \in {lower_temp, upper_temp})

\* a finished search in each direction on a state whose stored invariant is
\* not 0, with both bounds moved
C6_Witness ==
  /\ op = "approximate_amount_out" /\ pc = "done" /\ sell_asset
  /\ self.invariant_f = -100
  /\ SignOf(C6_Target(0)) < 0 /\ SignOf(C6_Target(Scale)) > 0
  /\ 0 < lower_temp /\ upper_temp < Scale

(* C7: approximate_amount_out(sell_asset, amount_in) returns the current
   out-reserve minus the reserve found by approximate_other_reserve for
   (sell_asset, current in-reserve + amount_in): in-reserve x and
   out-reserve y when sell_asset, in-reserve y and out-reserve x otherwise. *)
C7_AmountOutIsReserveDifference ==
  (op = "approximate_amount_out" /\ pc = "done") =>
    /\ data = Bisection_new(0, Scale, Eps(1, 10000), 1000)
    /\ fx.kind = (IF sell_asset THEN "swap_x" ELSE "swap_y")
    /\ fx.copy = (IF sell_asset
                  THEN [self EXCEPT !.reserve_x_per_wad = self.reserve_x_per_wad + amount_in]
                  ELSE [self EXCEPT !.reserve_y_per_wad = self.reserve_y_per_wad + amount_in])
    /\ ret = Fin((IF sell_asset THEN self.reserve_y_per_wad ELSE self.reserve_x_per_wad)
                   - root)

\* a sale of y on a state whose two reserves differ
C7_Witness ==
  /\ op = "approximate_amount_out" /\ pc = "done" /\ ~sell_asset
  /\ self.reserve_x_per_wad # self.reserve_y_per_wad
  /\ ret.v # 0

(* C8: for a valid state and amount_in > 0, approximate_amount_out with
   sell_asset = true returns less than the state's reserve y; on the curve
   of the tests with amount_in = 0.1 it returns less than 1.0. *)
C8_AmountOutBelowReserve ==
  (op = "approximate_amount_out" /\ pc = "done" /\ sell_asset
     /\ Valid(self) /\ amount_in > 0) =>
    /\ IsFin(ret)
    /\ ret.v < self.reserve_y_per_wad
    /\ (self = CURVE /\ amount_in = 1638) => ret.v < Scale

\* the call of tests::math_approximate_amount_out has returned
C8_Witness ==
  /\ op = "approximate_amount_out" /\ pc = "done" /\ sell_asset
  /\ self = CURVE /\ amount_in = 1638

\* the reserve coming in stays inside its domain after the trade
InReserveInDomain ==
  IF sell_asset THEN self.reserve_x_per_wad + amount_in < Scale
  ELSE self.reserve_y_per_wad + amount_in < self.strike_price_f

(* C9: for a well-formed forward trade (a valid state on its curve,
   amount_in > 0, the new in-reserve still in its domain)
   approximate_amount_out returns a positive amount. *)
C9_AmountOutPositive ==
  (op = "approximate_amount_out" /\ pc = "done"
     /\ Valid(self) /\ OnCurve(self) /\ amount_in > 0 /\ InReserveInDomain) =>
    ret.v > 0

(* C10: trading_function_floating returns termY - termX + volTime with
   termX = InvCDF(1 - reserve_x), termY = InvCDF(reserve_y / strike) and
   volTime = std_dev * sqrt(time_remaining / 31556953); the stored invariant
   field does not enter, and volTime is 0 when time_remaining is 0 (and
   std_dev when time_remaining is 31556953). *)
C10_TradingFunctionFormula ==
  (op = "trading_function_floating" /\ pc = "done") =>
    LET termX == inverse_cdf(Scale - self.reserve_x_per_wad)
        termY == inverse_cdf(DivFix(self.reserve_y_per_wad, self.strike_price_f))
        volTime == MulFix(self.std_dev_f, SqrtFix(YearFraction(self.time_remaining_sec)))
    IN /\ SECONDS_PER_YEAR = 31556953
       /\ ret = AddF(SubF(termY, termX), Fin(volTime))
       /\ ret = trading_function_floating([self EXCEPT !.invariant_f = 0])
       /\ self.time_remaining_sec = 0 => (volTime = 0 /\ ret = SubF(termY, termX))
       /\ self.time_remaining_sec = 31556953 =>
            ret = AddF(SubF(termY, termX), Fin(self.std_dev_f))

\* an evaluation at time_remaining 0 on a state whose stored invariant and
\* volatility are not 0
C10_Witness ==
  /\ op = "trading_function_floating" /\ pc = "done"
  /\ self.time_remaining_sec = 0 /\ self.std_dev_f > 0
  /\ self.invariant_f # 0
  /\ IsFin(ret) /\ ret.v # 0

(* C11: approximate_y_given_x_floating returns
   strike * CDF(InvCDF(1 - reserve_x) - volTime), the invariant taken as 0:
   the result is the same for every reserve_y and every stored invariant. *)
C11_YGivenXFormula ==
  (op = "approximate_y_given_x_floating" /\ pc = "done") =>
    LET termX == inverse_cdf(Scale - self.reserve_x_per_wad)
        volTime == MulFix(self.std_dev_f, SqrtFix(YearFraction(self.time_remaining_sec)))
    IN /\ ret = TimesF(self.strike_price_f, cdf(SubF(termX, Fin(volTime))))
       /\ \A y \in {0, 4096, 3 * Scale}, i \in {0, -100, 4096} :
            approximate_y_given_x_floating(
              [self EXCEPT !.reserve_y_per_wad = y, !.invariant_f = i]) = ret

\* a result on a state whose stored invariant is not 0 and whose reserve y
\* is outside [0, strike]
C11_Witness ==
  /\ op = "approximate_y_given_x_floating" /\ pc = "done"
  /\ self.invariant_f # 0
  /\ self.reserve_y_per_wad > self.strike_price_f
  /\ IsFin(ret) /\ ret.v > 0

(* C12: approximate_x_given_y_floating returns 1 - CDF(termY + volTime - k)
   with termY = InvCDF(reserve_y / strike) and k the value of
   trading_function_floating on the same state: k is neither the stored
   invariant field nor 0. *)
C12_XGivenYFormula ==
  (op = "approximate_x_given_y_floating" /\ pc = "done") =>
    LET termY == inverse_cdf(DivFix(self.reserve_y_per_wad, self.strike_price_f))
        volTime == MulFix(self.std_dev_f, SqrtFix(YearFraction(self.time_remaining_sec)))
        k == trading_function_floating(self)
    IN ret = SubF(Fin(Scale), cdf(SubF(AddF(termY, Fin(volTime)), k)))

\* a result that differs from the one the stored invariant gives and from
\* the one an invariant of 0 gives
C12_Witness ==
  /\ op = "approximate_x_given_y_floating" /\ pc = "done"
  /\ IsFin(ret)
  /\ IsFin(trading_function_floating(self))
  /\ trading_function_floating(self).v \notin {0, self.invariant_f}
  /\ ret # approximate_x_given_y_floating_StoredK(self)
  /\ ret # approximate_x_given_y_floating_StoredK([self EXCEPT !.invariant_f = 0])

(* C13: round trip: for x0 in (0.05, 0.95), with y0 = y_equals(x0) in
   (0, strike), x_equals(y0) is within 1e-3 of x0. *)
C13_RoundTripRecoversX ==
  (op = "x_equals" /\ pc = "done" /\ 0 < arg /\ arg < self.strike_price_f) =>
    \A x0 \in X0s :
      y_equals(self, x0) = Fin(arg) =>
        (IsFin(ret) /\ Abs(ret.v - x0) * 1000 <= Scale)

(* C14: get_trading_function_coordinates returns the pairs (x, y) for
   x = 0.0, 0.01, ... below 1.0 in increasing order, each y being
   approximate_y_given_x_floating on a clone whose reserve x is that x, and
   a second call gives the same sequence. *)
C14_CoordinatesOnClone ==
  (op = "get_trading_function_coordinates" /\ pc = "done") =>
    /\ Len(points) = 100
    /\ \A i \in 1..Len(points) :
         /\ points[i][1] = CoordinateX(i)
         /\ 100 * points[i][1] <= (i - 1) * Scale
         /\ (i - 1) * Scale < 100 * (points[i][1] + 1)
         /\ points[i][1] < Scale
         /\ i > 1 => points[i - 1][1] < points[i][1]
         /\ points[i][2] =
              approximate_y_given_x_floating(
                [self EXCEPT !.reserve_x_per_wad = points[i][1]])
    /\ points = get_trading_function_coordinates(self)

(* C15: no operation of NormalCurve changes a field of the state it is
   called on: every step leaves self as it was, a reserve is only ever
   written to a clone. *)
C15_SelfUnchanged == [][self' = self]_vars

\* y_equals and the trade approximation have each written a reserve to
\* their clone
C15_Witness ==
  \/ /\ op = "y_equals" /\ pc = "done"
     /\ probe.reserve_x_per_wad # self.reserve_x_per_wad
  \/ /\ op = "approximate_amount_out" /\ pc = "done" /\ fx.copy # self

(* C16: evaluating trading_function_floating again on the state of a
   finished call gives the value the call returned, and running the
   bisection again on the inputs of a finished run gives the root it
   returned: the results are functions of the inputs alone. *)
C16_SameResultTwice ==
  /\ (op = "trading_function_floating" /\ pc = "done") =>
       ret = trading_function_floating(self)
  /\ (op \in {"bisection", "approximate_amount_out"} /\ pc = "done") =>
       Fin(root) = bisection(data, fx)
  /\ (op \in {"bisection", "approximate_amount_out"} /\ pc = "panicked") =>
       Panic = bisection(data, fx)

\* a finished evaluation with a value that is not 0, and a finished search
\* of at least two iterations
C16_Witness ==
  \/ /\ op = "trading_function_floating" /\ pc = "done"
     /\ IsFin(ret) /\ ret.v # 0
  \/ /\ op = "bisection" /\ pc = "done" /\ iterations >= 2 /\ root # 0

(* C17: no core operation aborts for any input: also for states outside
   the domain every call returns a value. *)
C17_NoOperationAborts == pc # "panicked"

(* C19: after any sequence of Caller wrapper calls, res() returns Ok exactly
   when the most recent call executed successfully, and then with that
   call's result; it returns Err when the call errored, reverted or halted,
   also when an earlier call had succeeded, and when no call was made. *)
C19_ResReflectsLastCall ==
  (op = "Caller" /\ res_ret.kind # "none") =>
    LET n == res_ret.at
    IN /\ res_ret.kind \in {"Ok", "Err"}
       /\ res_ret.kind = "Ok" <=> (n >= 1 /\ executed[n] = "success")
       /\ res_ret.kind = "Ok" => res_ret.result = [status |-> "success", id |-> n]

\* res() after a failed call that followed a successful one
C19_Witness ==
  /\ op = "Caller" /\ res_ret.kind = "Err"
  /\ res_ret.at >= 2
  /\ executed[res_ret.at - 1] = "success"
  /\ executed[res_ret.at] # "success"

(* C20: map_x_per_lq (map_y_per_lq) on the snapshots recorded under a key
   returns one value per snapshot, in insertion order, equal to
   floor(virtual_x * 10^18 / liquidity) (virtual_y for map_y_per_lq) of that
   snapshot, liquidity > 0; virtual_x = liquidity gives 1.0. *)
C20_PerLiquidityIsFloorQuotient ==
  [][ mapped' # mapped =>
        LET v == pools[mapped'.key]
            out == mapped'.out
        IN /\ Len(out) = Len(v)
           /\ \A i \in 1..Len(v) :
                LET total == IF mapped'.fn = "map_x_per_lq"
                             THEN v[i].virtual_x ELSE v[i].virtual_y
                IN /\ v[i].liquidity > 0
                   /\ out[i] * v[i].liquidity <= total * parse_ether_1
                   /\ total * parse_ether_1 < (out[i] + 1) * v[i].liquidity
                   /\ total = v[i].liquidity => out[i] = parse_ether_1 ]_vars

\* two snapshots mapped in order: the first converts to 1.0, the second has
\* a quotient that is rounded down
C20_Witness ==
  /\ op = "RawData" /\ mapped.fn = "map_x_per_lq"
  /\ Len(mapped.out) = 2
  /\ mapped.out[1] = parse_ether_1
  /\ mapped.out[2] * 3 < parse_ether_1
  /\ pools[mapped.key][2].virtual_x # pools[mapped.key][2].virtual_y

(* C27 as stated: for lower < upper every iteration of Bisection::bisection
   keeps lower <= lo <= mid <= hi <= upper, never moves a bound outward and
   exactly halves the width, so that after n iterations
   hi - lo = (upper - lower) / 2^n, whatever f is. *)
C27_AlwaysHalves ==
  [][ (op = "bisection" /\ data.lower < data.upper /\ IterStep) =>
        /\ data.lower <= lower_temp' /\ lower_temp' <= root'
        /\ root' <= upper_temp' /\ upper_temp' <= data.upper
        /\ lower_temp <= lower_temp' /\ upper_temp' <= upper_temp
        /\ 2 * (upper_temp' - lower_temp') = upper_temp - lower_temp ]_vars

(* C27 amended: for lower < upper every iteration keeps
   lower <= lo <= mid <= hi <= upper and never moves a bound outward,
   whatever f is; the width is exactly halved in every iteration whose
   midpoint (lo + hi) / 2 is a representable number, and is not halved in
   an iteration whose midpoint had to be rounded. *)
C27_HalvesWhileRepresentable ==
  [][ (op = "bisection" /\ data.lower < data.upper /\ IterStep) =>
        /\ data.lower <= lower_temp' /\ lower_temp' <= root'
        /\ root' <= upper_temp' /\ upper_temp' <= data.upper
        /\ lower_temp <= lower_temp' /\ upper_temp' <= upper_temp
        /\ IF (lower_temp + upper_temp) % 2 = 0
           THEN /\ 2 * root' = lower_temp + upper_temp
                /\ 2 * (upper_temp' - lower_temp') = upper_temp - lower_temp
           ELSE 2 * (upper_temp' - lower_temp') # upper_temp - lower_temp
    ]_vars

\* a run that halved the bracket 14 times and then rounded a midpoint
C27_Witness ==
  /\ op = "bisection" /\ data.lower < data.upper
  /\ iterations > 14 /\ upper_temp - lower_temp = 1
  /\ root = lower_temp /\ lower_temp > data.lower

(* C28: approximate_other_reserve always runs the bisection on the bracket
   [0, 1] with epsilon 0.0001 and max_iter 1000, whatever the state and the
   direction: a call that returns has run exactly 14 iterations and its
   result is an odd multiple of 2^-14 strictly between 0 and 1, also for a
   y reserve of a pool whose strike is above 1. *)
C28_FixedBracketFourteenIterations ==
  (op = "approximate_amount_out" /\ pc \in {"loop", "done"}) =>
    /\ data = Bisection_new(0, Scale, Eps(1, 10000), 1000)
    /\ iterations <= 14
    /\ lower_temp >= 0 /\ upper_temp <= Scale
    /\ pc = "done" =>
         /\ iterations = 14
         /\ Scale = 2^14 /\ root % 2 = 1
         /\ 0 < root /\ root < Scale

\* a returned search for the y reserve of a pool with strike 2.0
C28_Witness ==
  /\ op = "approximate_amount_out" /\ pc = "done"
  /\ sell_asset /\ self.strike_price_f = 2 * Scale
  /\ iterations = 14 /\ root < Scale

\* the states that differ from c in reserve y only
OtherReserveY(c) ==
  { [c EXCEPT !.reserve_y_per_wad = y] :
      y \in { d.reserve_y_per_wad : d \in Curves } \ {c.reserve_y_per_wad} }

(* C29: k in approximate_x_given_y_floating is computed from the reserves of
   the same state, so termY + volTime - k is InvCDF(1 - reserve_x): for an
   in-domain state the function returns 1 - CDF(InvCDF(1 - reserve_x)),
   the state's own reserve x, and a state that differs in reserve y only
   gets the same result. *)
C29_ReturnsOwnReserveX ==
  (op = "approximate_x_given_y_floating" /\ pc = "done" /\ Valid(self)) =>
    /\ ret = SubF(Fin(Scale),
                  cdf(inverse_cdf(Scale - self.reserve_x_per_wad)))
    /\ IsFin(ret) /\ Abs(ret.v - self.reserve_x_per_wad) <= 1
    /\ \A c \in OtherReserveY(self) :
         Valid(c) => approximate_x_given_y_floating(c) = ret

\* a state off the curve of invariant 0 with an in-domain state beside it
\* that has another reserve y
C29_Witness ==
  /\ op = "approximate_x_given_y_floating" /\ pc = "done" /\ Valid(self)
  /\ IsFin(ret)
  /\ trading_function_floating(self) # Fin(0)
  /\ self.reserve_y_per_wad # self.reserve_x_per_wad
  /\ \E c \in OtherReserveY(self) : Valid(c)

(* C21: the sweep of the trading-function analysis never evaluates
   approximate_y_given_x_floating or the contract call at an x outside the
   open interval (0, 1): x is never 0 and never reaches 1.0 or beyond. *)
C21_SweepStaysInDomain ==
  (op = "analysis" /\ sweep.n >= 1) => SweepInDomain(sweep.n, sweep.drift)

(* C22: check_no_arb_bounds returns SwapDirection::None exactly when
   lower <= target_price <= upper with upper = floor(current_price * 10^18 / fee)
   and lower = floor(current_price * fee / 10^18); outside the bounds it
   returns SwapXToY exactly when current_price < target_price and SwapYToX
   otherwise; it never returns Option::None.  (t <= floor(a / b) is
   t * b <= a, and floor(a / b) <= t is a < (t + 1) * b.) *)
C22_DirectionFromBounds ==
  (op = "task" /\ task.fee > 0) =>
    LET current == task.current_price_wad
        target == task.target_price_wad
        inside == /\ target * task.fee <= current * parse_ether_1
                  /\ current * task.fee < (target + 1) * parse_ether_1
    IN /\ task.direction.k = "Some"
       /\ task.direction.v = "None" <=> inside
       /\ task.direction.v = "SwapXToY" <=> (~inside /\ current < target)
       /\ task.direction.v = "SwapYToX" <=> (~inside /\ ~(current < target))

\* a target price on the upper bound itself, above the current price
C22_Witness ==
  /\ op = "task" /\ task.fee > 0
  /\ task.direction = Some("None")
  /\ task.target_price_wad > task.current_price_wad
  /\ (task.target_price_wad + 1) * task.fee > task.current_price_wad * parse_ether_1

(* C23: task::run makes no swap call on the portfolio and no trade call on
   the exchange, and returns Ok, whenever the direction is None or the
   computed swap order has input 0. *)
C23_NoCallsWithoutArbitrage ==
  (op = "task" /\ (\/ task.direction = Some("None")
                   \/ task.swap_order.k = "Some" /\ task.swap_order.v.input = 0)) =>
    /\ task.swaps = 0 /\ task.trades = 0
    /\ task.pc = "returned" /\ task.result = "Ok"

\* a run with a direction whose order came back with input 0
C23_Witness ==
  /\ op = "task" /\ task.pc = "returned" /\ task.result = "Ok"
  /\ task.direction = Some("SwapYToX")
  /\ task.swap_order.k = "Some" /\ task.swap_order.v.input = 0
  /\ task.swaps = 0 /\ task.trades = 0

\* a step that makes a swap call
SwapStep == task'.swaps = task.swaps + 1

(* C24: the retry loop makes at most 100 swap attempts and stops at the first
   successful one; the first attempt is the quoted order, and after each
   reverted attempt only the output changes, to floor(output * 999 / 1000),
   so the output is non-increasing and the other fields are the same in
   every attempt. *)
C24_RetryReducesOutput ==
  [][ (op = "task" /\ SwapStep) =>
        /\ task'.swaps <= 100
        /\ task.swaps = 0 => task'.attempt.order = task.swap_order.v
        /\ task.swaps > 0 =>
             /\ task.attempt.outcome \in {"revert", "halt"}
             /\ task'.attempt.order =
                  [task.attempt.order EXCEPT
                     !.output = (task.attempt.order.output * 999) \div 1000]
             /\ task'.attempt.order.output <= task.attempt.order.output
    ]_vars

\* the hundredth attempt, with an output below the quoted one
C24_Witness ==
  /\ op = "task" /\ task.swaps = 100
  /\ task.attempt.order.output > 0
  /\ task.attempt.order.output < task.swap_order.v.output

(* C25: the exchange trade is made only after a swap attempt has succeeded, at
   most once per run, with the opposite direction (!sell_asset) and exactly
   the output of the attempt that succeeded; a trade that returns false (or
   fails) makes run return Err. *)
C25_TradeAfterSuccessfulSwap ==
  (op = "task") =>
    /\ task.trades <= 1
    /\ task.trades = 1 =>
         /\ task.swap_success /\ task.attempt.outcome = "success"
         /\ task.trade.args.sell_asset = ~task.attempt.order.sell_asset
         /\ task.trade.args.amount = task.attempt.order.output
         /\ task.pc = "returned"
         /\ task.result = (IF task.trade.result THEN "Ok" ELSE "Err")

\* a trade of a reduced output that came back false
C25_Witness ==
  /\ op = "task" /\ task.trades = 1 /\ task.swaps >= 2
  /\ task.trade.args.amount < task.swap_order.v.output
  /\ task.trade.outcome = "success" /\ ~task.trade.result
  /\ task.result = "Err"

(* C30: when all 100 swap attempts revert, run makes no exchange trade and
   returns Ok(()), as it does when no arbitrage was needed. *)
C30_ExhaustedRetriesReturnOk ==
  (op = "task" /\ task.pc = "returned" /\ task.swaps = 100
     /\ ~task.swap_success /\ task.attempt.outcome \in {"revert", "halt"}) =>
    /\ task.trades = 0
    /\ task.result = "Ok"

\* a run that returned after a hundred reverted attempts
C30_Witness ==
  /\ op = "task" /\ task.pc = "returned" /\ task.swaps = 100
  /\ task.max_iter = 0
  /\ ~task.swap_success /\ task.attempt.outcome = "revert"
  /\ task.result = "Ok" /\ task.trades = 0

(* C26: the simulation first sets the exchange price to prices[0] and takes
   one snapshot; then for each later price p, in path order, it runs the
   task targeting p, takes a snapshot, and sets the exchange price to p.  So
   the k-th snapshot (k > 1) is taken after the task for the k-th price and
   while the exchange still has the price before it, a finished run has
   exactly len(prices) snapshots, and an Err from task, log or step ends the
   run before the CSV is written. *)
C26_TaskLogStepOrder ==
  /\ [](op = "sim" =>
         /\ \A k \in 1..Len(sim.tasks) : sim.tasks[k] = sim.prices[k + 1]
         /\ \A k \in 1..Len(sim.snapshots) :
              sim.snapshots[k] =
                [reference_price |-> sim.prices[IF k = 1 THEN 1 ELSE k - 1],
                 tasks_run |-> k - 1]
         /\ Len(sim.snapshots) <= Len(sim.prices)
         /\ Len(sim.tasks) \in {Len(sim.snapshots) - 1, Len(sim.snapshots)}
         /\ sim.pc = "write" => Len(sim.snapshots) = Len(sim.prices)
         /\ sim.csv_written =>
              (Len(sim.snapshots) = Len(sim.prices) /\ sim.result = "Ok")
         /\ sim.result = "Err" => ~sim.csv_written)
  /\ [][ (op = "sim" /\ sim.result = "Err") => sim' = sim ]_vars
  /\ [][ (op = "sim" /\ sim'.exchange_price # sim.exchange_price) =>
           IF sim.snapshots = << >>
           THEN sim'.exchange_price = sim.prices[1] /\ sim.tasks = << >>
           ELSE /\ sim'.exchange_price = sim.prices[Len(sim.snapshots)]
                /\ Len(sim.tasks) = Len(sim.snapshots) - 1
                /\ Len(sim.snapshots) >= 2 ]_vars

\* a finished run over a path of three prices that changes at each step
C26_Witness ==
  /\ op = "sim" /\ sim.csv_written /\ Len(sim.prices) = 3
  /\ sim.prices[1] # sim.prices[2] /\ sim.prices[2] # sim.prices[3]
  /\ Len(sim.snapshots) = 3 /\ sim.exchange_price = sim.prices[3]

====
